---- MODULE Spec2Model ----
(***************************************************************************)
(* Model of the log analysis engine (src/log_processor.py), of the upload, *)
(* clear and chat handlers that drive it (src/main.py) and of the context  *)
(* the agent prepares for a chat message (src/perplexity_agent.py).        *)
(*                                                                         *)
(* A document is the list content.split('\n'): a non-empty sequence of     *)
(* lines.  A line is the sequence of its space-separated tokens; the text  *)
(* of the line is its tokens joined by one space.  The regular expressions *)
(* of LogProcessor.patterns are modelled by what they match on the tokens  *)
(* of the vocabulary below.  None is the empty sequence, a present value v *)
(* is <<v>>.                                                               *)
(***************************************************************************)
EXTENDS Integers, Sequences, FiniteSets, TLC

VARIABLES
    logs,           \* self.logs
    user_sessions,  \* self.user_sessions: ordered mapping, <<[k, v]>> in key insertion order
    errors,         \* self.errors
    api_calls,      \* self.api_calls
    content,        \* the text handed to the last parse_logs call, as its lines
    previous,       \* the text handed to the parse_logs call before that one
    parses,         \* number of parse_logs calls made on this processor
    submitted,      \* number of lines those calls were given
    pc,             \* "idle", or "loop" while parse_logs is inside its for loop
    idx,            \* enumerate index of the next line of the running parse_logs
    parsed_logs,    \* local list parsed_logs of the running parse_logs
    last_op,        \* name and argument of the last operation that returned
    result          \* the value it returned

vars == <<logs, user_sessions, errors, api_calls, content, previous, parses, submitted,
          pc, idx, parsed_logs, last_op, result>>

(***************************************************************************)
(* Bounds of the model.                                                    *)
(***************************************************************************)
MaxSubmitted == 3      \* lines handed to parse_logs on one processor, over all its calls

None == <<>>
Some(v) == <<v>>

(***************************************************************************)
(* Vocabulary: the tokens the sample lines are built from.                 *)
(***************************************************************************)
T1 == "2024-01-01T10:00:01"
T2 == "2024-01-01T10:00:02"

\* Characters of the strings that are lowered or searched (str.lower, `in`).
Chars ==
    ( "abc" :> <<"a", "b", "c">> ) @@
    ( "abd" :> <<"a", "b", "d">> ) @@
    ( "AB"  :> <<"A", "B">> ) @@
    ( "bd"  :> <<"b", "d">> ) @@
    ( "zz"  :> <<"z", "z">> ) @@
    ( "show"       :> <<"s", "h", "o", "w">> ) @@
    ( "errors"     :> <<"e", "r", "r", "o", "r", "s">> ) @@
    ( "api"        :> <<"a", "p", "i">> ) @@
    ( "for"        :> <<"f", "o", "r">> ) @@
    ( "track"      :> <<"t", "r", "a", "c", "k">> ) @@
    ( "user"       :> <<"u", "s", "e", "r">> ) @@
    ( "journey"    :> <<"j", "o", "u", "r", "n", "e", "y">> ) @@
    ( "of"         :> <<"o", "f">> ) @@
    ( "ABD"        :> <<"A", "B", "D">> ) @@
    ( "hello"      :> <<"h", "e", "l", "l", "o">> ) @@
    ( "username:"  :> <<"u", "s", "e", "r", "n", "a", "m", "e", ":">> ) @@
    ( "error"      :> <<"e", "r", "r", "o", "r">> ) @@
    ( "username"   :> <<"u", "s", "e", "r", "n", "a", "m", "e">> )

\* str.lower() on one character.
LowerChar(c) ==
    CASE c = "A" -> "a"
      [] c = "B" -> "b"
      [] c = "D" -> "d"
      [] OTHER -> c

\* str.lower()
Lower(cs) == [i \in 1..Len(cs) |-> LowerChar(cs[i])]

\* a in b, for strings given as their characters
IsSubstring(a, b) ==
    \E s \in 0..(Len(b) - Len(a)) : \A i \in 1..Len(a) : b[s + i] = a[i]

\* Tokens made of whitespace only.
Whitespace == {"\t"}

\* Tokens matched by patterns['timestamp'].
TimestampTokens == {T1, T2}

\* Tokens matched by patterns['log_level'] under re.IGNORECASE, with
\* match.group(1).upper().
LevelUpper ==
    ( "INFO" :> "INFO" ) @@ ( "ERROR" :> "ERROR" ) @@
    ( "warn" :> "WARN" ) @@ ( "WARNING" :> "WARNING" )

\* Alternatives of group 1 of patterns['api_endpoint'] that occur as tokens.
Methods == {"GET", "POST"}

\* Tokens matched by /[^\s]* .
Paths == {"/a", "/b"}

\* Tokens that are decimal numbers, with int(token).
NumberValue == ( "200" :> 200 ) @@ ( "500" :> 500 ) @@ ( "700" :> 700 )

\* Tokens matched by one of the identifier patterns: the kind whose pattern
\* matches and the text the code stores for it.
IdentifierToken ==
    ( "user_id=abc"  :> [kind |-> "user_id",  value |-> "abc"] ) @@
    ( "username=abc" :> [kind |-> "username", value |-> "abc"] ) @@
    ( "trace_id=abd" :> [kind |-> "trace_id", value |-> "abd"] )

\* Tokens containing "error" or "exception" in any case, or matched by
\* patterns['exception'] under re.IGNORECASE.
ErrorTokens == {"ERROR", "TimeoutError"}

\* Tokens matched by (\w+Exception|\w+Error).
ExceptionTokens == {"TimeoutError"}

(***************************************************************************)
(* The lines documents are made of.                                        *)
(***************************************************************************)
LineOk      == <<T1, "INFO", "user_id=abc", "GET", "/a", "200">>
LineNoApi   == <<T2, "warn", "user_id=abc">>
LineErr200  == <<T2, "ERROR", "username=abc", "GET", "/a", "200">>
LineKinds   == <<"WARNING", "user_id=abc", "username=abc", "trace_id=abd", "POST", "/b", "500">>
LineExc     == <<T1, "POST", "/b", "TimeoutError", "700">>
LineEmpty   == <<>>

Lines == {LineOk, LineNoApi, LineErr200, LineKinds, LineExc, LineEmpty}

\* The documents of at most n lines; content.split('\n') always has at least
\* one element.
Docs(n) == UNION {[1..k -> Lines] : k \in 1..n}

\* Arguments the journey queries are called with.
Identifiers == {"AB", "bd", "zz"}

(***************************************************************************)
(* Pattern extraction.                                                     *)
(***************************************************************************)
\* Position of the first token of line that is in the set S of the tokens a
\* pattern matches, 0 if there is none (re.search returns the leftmost match).
FirstToken(line, S) ==
    IF \E i \in 1..Len(line) : line[i] \in S
    THEN CHOOSE i \in 1..Len(line) :
            line[i] \in S /\ \A j \in 1..(i - 1) : line[j] \notin S
    ELSE 0

\* not line.strip()
IsBlank(line) == \A i \in 1..Len(line) : line[i] \in Whitespace

_extract_timestamp(line) ==
    LET i == FirstToken(line, TimestampTokens)
    IN  IF i # 0 THEN Some(line[i]) ELSE None

_extract_log_level(line) ==
    LET i == FirstToken(line, DOMAIN LevelUpper)
    IN  IF i # 0 THEN LevelUpper[line[i]] ELSE "INFO"

_extract_api_call(line) ==
    LET Hit(i) == line[i] \in Methods /\ line[i + 1] \in Paths
    IN  IF \E i \in 1..(Len(line) - 1) : Hit(i)
        THEN LET i == CHOOSE k \in 1..(Len(line) - 1) :
                        Hit(k) /\ \A j \in 1..(k - 1) : ~Hit(j)
             IN  Some([method |-> line[i], endpoint |-> line[i + 1]])
        ELSE None

\* The pattern accepts a number of three digits whose first digit is 1..5.
_extract_status_code(line) ==
    LET shaped == {t \in DOMAIN NumberValue : NumberValue[t] \div 100 \in 1..5}
        i == FirstToken(line, shaped)
    IN  IF i # 0 /\ 100 <= NumberValue[line[i]] /\ NumberValue[line[i]] <= 599
        THEN Some(NumberValue[line[i]])
        ELSE None

\* The kinds in the order the code tries them; the dict keeps that order.
IdentifierKinds ==
    <<"user_id", "username", "email", "trace_id", "request_id", "session_id", "ip_address">>

\* The identifiers dict as the sequence of its (kind, value) items.
_extract_identifiers(line) ==
    LET Match(kind) ==
            FirstToken(line, {t \in DOMAIN IdentifierToken : IdentifierToken[t].kind = kind})
        Item(k) == [kind |-> IdentifierKinds[k],
                    value |-> IdentifierToken[line[Match(IdentifierKinds[k])]].value]
        Found(k) == Match(IdentifierKinds[k]) # 0
        RECURSIVE Build(_)
        Build(k) == IF k > Len(IdentifierKinds) THEN <<>>
                    ELSE IF Found(k) THEN <<Item(k)>> \o Build(k + 1)
                    ELSE Build(k + 1)
    IN  Build(1)

_has_error(line) == \E i \in 1..Len(line) : line[i] \in ErrorTokens

_extract_exception(line) ==
    LET i == FirstToken(line, ExceptionTokens)
    IN  IF i # 0 THEN Some(line[i]) ELSE None

\* LogEntry numbering the lines from 0: line_number is idx, not idx + 1.
LogEntryFromZero(i, line) ==
    [ line_number    |-> i,
      raw            |-> line,
      timestamp      |-> _extract_timestamp(line),
      level          |-> _extract_log_level(line),
      api            |-> _extract_api_call(line),
      status_code    |-> _extract_status_code(line),
      identifiers    |-> _extract_identifiers(line),
      has_error      |-> _has_error(line),
      exception_type |-> _extract_exception(line) ]

\* The dict built for the line at enumerate index i.
LogEntry(i, line) ==
    [ line_number    |-> i + 1,
      raw            |-> line,
      timestamp      |-> _extract_timestamp(line),
      level          |-> _extract_log_level(line),
      api            |-> _extract_api_call(line),
      status_code    |-> _extract_status_code(line),
      identifiers    |-> _extract_identifiers(line),
      has_error      |-> _has_error(line),
      exception_type |-> _extract_exception(line) ]

(***************************************************************************)
(* parse_logs.                                                             *)
(***************************************************************************)
\* Truth value of an optional number: None and 0 are false.
Truthy(opt) == opt # None /\ opt[1] # 0

\* self.user_sessions[key].append(entry) on the defaultdict(list): a missing
\* key is created, after the keys already there.
SessionsAppend(us, key, entry) ==
    IF \E j \in 1..Len(us) : us[j].k = key
    THEN LET j == CHOOSE j \in 1..Len(us) : us[j].k = key
         IN  [us EXCEPT ![j].v = Append(@, entry)]
    ELSE Append(us, [k |-> key, v |-> <<entry>>])

\* IndexEntry appending the entry once per distinct value instead of once
\* per (kind, value) item.
RECURSIVE IndexEntryOncePerValue(_, _, _)
IndexEntryOncePerValue(us, entry, n) ==
    IF n > Len(entry.identifiers) THEN us
    ELSE IF /\ entry.identifiers[n].value # ""
            /\ \A m \in 1..(n - 1) : entry.identifiers[m].value # entry.identifiers[n].value
         THEN IndexEntryOncePerValue(
                SessionsAppend(us, entry.identifiers[n].value, entry), entry, n + 1)
         ELSE IndexEntryOncePerValue(us, entry, n + 1)

\* The loop over log_entry['identifiers'].items(), from item n on.
RECURSIVE IndexEntry(_, _, _)
IndexEntry(us, entry, n) ==
    IF n > Len(entry.identifiers) THEN us
    ELSE IF entry.identifiers[n].value # ""
         THEN IndexEntry(SessionsAppend(us, entry.identifiers[n].value, entry), entry, n + 1)
         ELSE IndexEntry(us, entry, n + 1)

\* One iteration of the for loop of parse_logs, on the line at enumerate
\* index i; st holds parsed_logs and the three collections of self.
ProcessLine(st, i, line) ==
    IF IsBlank(line) THEN st
    ELSE LET log_entry == LogEntry(i, line)
         IN  [ parsed_logs   |-> Append(st.parsed_logs, log_entry),
               errors        |-> IF log_entry.has_error
                                 THEN Append(st.errors, log_entry)
                                 ELSE st.errors,
               api_calls     |-> IF log_entry.api # None
                                 THEN Append(st.api_calls, log_entry)
                                 ELSE st.api_calls,
               user_sessions |-> IndexEntry(st.user_sessions, log_entry, 1) ]

\* The iterations of the for loop of parse_logs with enumerate index i up to
\* n - 1, in their order: the first half of them, then the second half on
\* what the first half left (the test has the first half evaluated before
\* the second begins; parsed_logs never shrinks).
RECURSIVE ParseLoop(_, _, _, _)
ParseLoop(st, lines, i, n) ==
    IF i >= n THEN st
    ELSE IF n = i + 1 THEN ProcessLine(st, i, lines[i + 1])
    ELSE LET mid   == (i + n) \div 2
             first == ParseLoop(st, lines, i, mid)
         IN  IF Len(first.parsed_logs) >= Len(st.parsed_logs)
             THEN ParseLoop(first, lines, mid, n)
             ELSE first

\* State of a LogProcessor after __init__.
FreshStore ==
    [ logs |-> <<>>, user_sessions |-> <<>>, errors |-> <<>>, api_calls |-> <<>> ]

\* StoreAfterParse with every list of self.user_sessions emptied, its keys
\* kept, before the loop.
StoreAfterParseEmptiedLists(s, lines) ==
    LET st == ParseLoop([ parsed_logs   |-> <<>>,
                          errors        |-> s.errors,
                          api_calls     |-> s.api_calls,
                          user_sessions |-> [j \in 1..Len(s.user_sessions) |->
                                               [ k |-> s.user_sessions[j].k, v |-> <<>> ]] ],
                        lines, 0, Len(lines))
    IN  [ logs          |-> st.parsed_logs,
          user_sessions |-> st.user_sessions,
          errors        |-> st.errors,
          api_calls     |-> st.api_calls ]

\* The store after parse_logs(lines) has run to its return on the store s.
StoreAfterParse(s, lines) ==
    LET st == ParseLoop([ parsed_logs   |-> <<>>,
                          errors        |-> s.errors,
                          api_calls     |-> s.api_calls,
                          user_sessions |-> s.user_sessions ], lines, 0, Len(lines))
    IN  [ logs          |-> st.parsed_logs,
          user_sessions |-> st.user_sessions,
          errors        |-> st.errors,
          api_calls     |-> st.api_calls ]

CurrentStore ==
    [ logs |-> logs, user_sessions |-> user_sessions,
      errors |-> errors, api_calls |-> api_calls ]

(***************************************************************************)
(* Journey resolver.                                                       *)
(***************************************************************************)
\* MatchesIdentifier without the two .lower() calls: a case-sensitive search.
MatchesIdentifierCaseSensitive(log, user_identifier) ==
    \E n \in 1..Len(log.identifiers) :
        /\ log.identifiers[n].value # ""
        /\ IsSubstring(Chars[user_identifier], Chars[log.identifiers[n].value])

\* The test of get_user_journey on one log: some identifier value contains
\* the lowered argument.
MatchesIdentifier(log, user_identifier) ==
    \E n \in 1..Len(log.identifiers) :
        /\ log.identifiers[n].value # ""
        /\ IsSubstring(Lower(Chars[user_identifier]),
                       Lower(Chars[log.identifiers[n].value]))

\* CollectJourney reading only the buckets whose key contains the argument.
RECURSIVE CollectJourneyMatchingKeys(_, _, _)
CollectJourneyMatchingKeys(us, user_identifier, j) ==
    IF j > Len(us) THEN <<>>
    ELSE LET Hit(log) == MatchesIdentifier(log, user_identifier)
             rest == CollectJourneyMatchingKeys(us, user_identifier, j + 1)
         IN  IF IsSubstring(Lower(Chars[user_identifier]), Lower(Chars[us[j].k]))
             THEN SelectSeq(us[j].v, Hit) \o rest
             ELSE rest

\* user_logs before the sort: the buckets in key order, each in its order.
RECURSIVE CollectJourney(_, _, _)
CollectJourney(us, user_identifier, j) ==
    IF j > Len(us) THEN <<>>
    ELSE LET Hit(log) == MatchesIdentifier(log, user_identifier)
         IN  SelectSeq(us[j].v, Hit) \o CollectJourney(us, user_identifier, j + 1)

\* Order of the strings that occur as sort keys (str comparison).
StringRank == ( "" :> 0 ) @@ ( T1 :> 1 ) @@ ( T2 :> 2 )

\* key=lambda x: x['timestamp'] or ''
SortKey(log) == IF log.timestamp # None /\ log.timestamp[1] # "" THEN log.timestamp[1] ELSE ""

KeyLeq(a, b) == StringRank[SortKey(a)] <= StringRank[SortKey(b)]

\* InsertByKey placing x before the elements whose key equals its own: a
\* sort that is not stable.
InsertByKeyBeforeEqual(sorted, x) ==
    LET p == Cardinality({i \in 1..Len(sorted) :
                            StringRank[SortKey(sorted[i])] < StringRank[SortKey(x)]})
    IN  SubSeq(sorted, 1, p) \o <<x>> \o SubSeq(sorted, p + 1, Len(sorted))

\* list.sort(key=...): ascending and stable.  x is placed after the
\* elements of the sorted prefix whose key is not greater than its own.
InsertByKey(sorted, x) ==
    LET p == Cardinality({i \in 1..Len(sorted) : KeyLeq(sorted[i], x)})
    IN  SubSeq(sorted, 1, p) \o <<x>> \o SubSeq(sorted, p + 1, Len(sorted))

RECURSIVE SortByKey(_)
SortByKey(seq) ==
    IF seq = <<>> THEN <<>>
    ELSE InsertByKey(SortByKey(SubSeq(seq, 1, Len(seq) - 1)), seq[Len(seq)])

get_user_journey(us, user_identifier) ==
    SortByKey(CollectJourney(us, user_identifier, 1))

\* IsFailed looking at has_error only.
IsFailedErrorOnly(log) == log.has_error

\* The condition of the if in the loop of find_error_sequence.
IsFailed(log) ==
    log.has_error \/ (Truthy(log.status_code) /\ log.status_code[1] >= 400)

\* ErrorSequenceStep assigning log['api'] to last_successful_api without the
\* `if log['api']` test.
ErrorSequenceStepAnyApi(res, log) ==
    IF IsFailed(log)
    THEN [res EXCEPT
            !.failed_requests = Append(@, log),
            !.first_error = IF res.first_error = None THEN Some(log) ELSE @,
            !.error_apis = IF log.api # None THEN Append(@, log.api[1]) ELSE @]
    ELSE [res EXCEPT
            !.successful_requests = Append(@, log),
            !.last_successful_api = log.api]

\* ErrorSequenceStep assigning first_error without the
\* `if not result['first_error']` test.
ErrorSequenceStepLastError(res, log) ==
    IF IsFailed(log)
    THEN [res EXCEPT
            !.failed_requests = Append(@, log),
            !.first_error = Some(log),
            !.error_apis = IF log.api # None THEN Append(@, log.api[1]) ELSE @]
    ELSE [res EXCEPT
            !.successful_requests = Append(@, log),
            !.last_successful_api = IF log.api # None THEN log.api ELSE @]

\* One iteration of the loop of find_error_sequence.
ErrorSequenceStep(res, log) ==
    IF IsFailed(log)
    THEN [res EXCEPT
            !.failed_requests = Append(@, log),
            !.first_error = IF res.first_error = None THEN Some(log) ELSE @,
            !.error_apis = IF log.api # None THEN Append(@, log.api[1]) ELSE @]
    ELSE [res EXCEPT
            !.successful_requests = Append(@, log),
            !.last_successful_api = IF log.api # None THEN log.api ELSE @]

RECURSIVE ErrorSequenceLoop(_, _, _)
ErrorSequenceLoop(res, user_logs, n) ==
    IF n > Len(user_logs) THEN res
    ELSE ErrorSequenceLoop(ErrorSequenceStep(res, user_logs[n]), user_logs, n + 1)

find_error_sequence(us, user_identifier) ==
    LET user_logs == get_user_journey(us, user_identifier)
    IN  IF user_logs = <<>> THEN None
        ELSE Some(ErrorSequenceLoop(
                [ total_requests      |-> Len(user_logs),
                  successful_requests |-> <<>>,
                  failed_requests     |-> <<>>,
                  first_error         |-> None,
                  last_successful_api |-> None,
                  error_apis          |-> <<>> ], user_logs, 1))

(***************************************************************************)
(* Aggregator and context compiler.                                        *)
(***************************************************************************)
\* get_statistics counting the entries of level WARNING as warnings too.
get_statisticsWarningToo(s) ==
    LET HasError(l) == l.has_error
        IsWarn(l) == l.level \in {"WARN", "WARNING"}
        codes == {s.logs[i].status_code[1] :
                    i \in {n \in 1..Len(s.logs) : Truthy(s.logs[n].status_code)}}
    IN  [ total_logs   |-> Len(s.logs),
          errors       |-> Len(SelectSeq(s.logs, HasError)),
          warnings     |-> Len(SelectSeq(s.logs, IsWarn)),
          api_calls    |-> Len(s.api_calls),
          unique_users |-> Len(s.user_sessions),
          status_codes |-> [c \in codes |->
                              LET HasCode(l) == Truthy(l.status_code) /\ l.status_code[1] = c
                              IN  Len(SelectSeq(s.logs, HasCode))] ]

get_statistics(s) ==
    LET HasError(l) == l.has_error
        IsWarn(l) == l.level = "WARN"
        codes == {s.logs[i].status_code[1] :
                    i \in {n \in 1..Len(s.logs) : Truthy(s.logs[n].status_code)}}
    IN  [ total_logs   |-> Len(s.logs),
          errors       |-> Len(SelectSeq(s.logs, HasError)),
          warnings     |-> Len(SelectSeq(s.logs, IsWarn)),
          api_calls    |-> Len(s.api_calls),
          unique_users |-> Len(s.user_sessions),
          status_codes |-> [c \in codes |->
                              LET HasCode(l) == Truthy(l.status_code) /\ l.status_code[1] = c
                              IN  Len(SelectSeq(s.logs, HasCode))] ]

\* list(self.user_sessions.keys())
get_all_users(s) == [j \in 1..Len(s.user_sessions) |-> s.user_sessions[j].k]

\* f"{log['api']['method']} {log['api']['endpoint']}", kept as its two parts.
EndpointKey(log) == <<log.api[1].method, log.api[1].endpoint>>

\* ApiOutcome with the two tests in the other order: failed is tested first.
ApiOutcomeFailedFirst(log) ==
    IF log.has_error \/ (Truthy(log.status_code) /\ log.status_code[1] >= 400)
    THEN "failed"
    ELSE IF Truthy(log.status_code) /\ log.status_code[1] < 400 THEN "successful"
         ELSE "neither"

\* The branch the if / elif of get_api_summary takes for one log.
ApiOutcome(log) ==
    IF Truthy(log.status_code) /\ log.status_code[1] < 400 THEN "successful"
    ELSE IF log.has_error \/ (Truthy(log.status_code) /\ log.status_code[1] >= 400)
         THEN "failed"
         ELSE "neither"

\* exception_type of every log of seq that has one, in order.
RECURSIVE ExceptionTypes(_)
ExceptionTypes(seq) ==
    IF seq = <<>> THEN <<>>
    ELSE (IF Head(seq).exception_type # None THEN <<Head(seq).exception_type[1]>> ELSE <<>>)
         \o ExceptionTypes(Tail(seq))

get_api_summary(s) ==
    LET HasApi(l) == l.api # None
        calls == SelectSeq(s.api_calls, HasApi)
        keys == {EndpointKey(calls[i]) : i \in 1..Len(calls)}
    IN  [ key \in keys |->
            LET OfKey(l) == EndpointKey(l) = key
                Successful(l) == ApiOutcome(l) = "successful"
                Failed(l) == ApiOutcome(l) = "failed"
                mine == SelectSeq(calls, OfKey)
            IN  [ total_calls |-> Len(mine),
                  successful  |-> Len(SelectSeq(mine, Successful)),
                  failed      |-> Len(SelectSeq(mine, Failed)),
                  errors      |-> ExceptionTypes(SelectSeq(mine, Failed)) ] ]

find_common_patterns(s) ==
    LET HasExc(l) == l.exception_type # None
        HasApi(l) == l.api # None
        HasCode(l) == Truthy(l.status_code)
        E == s.errors
        At(P(_)) == {i \in 1..Len(E) : P(E[i])}
    IN  [ most_common_exceptions |->
            [x \in {E[i].exception_type[1] : i \in At(HasExc)} |->
                LET Is(l) == HasExc(l) /\ l.exception_type[1] = x IN Len(SelectSeq(E, Is))],
          most_failed_apis |->
            [key \in {EndpointKey(E[i]) : i \in At(HasApi)} |->
                LET Is(l) == HasApi(l) /\ EndpointKey(l) = key IN Len(SelectSeq(E, Is))],
          error_by_status_code |->
            [c \in {E[i].status_code[1] : i \in At(HasCode)} |->
                LET Is(l) == HasCode(l) /\ l.status_code[1] = c IN Len(SelectSeq(E, Is))],
          affected_users |->
            {E[i].identifiers[n].value :
                <<i, n>> \in {<<i, n>> \in (1..Len(E)) \X (1..Len(IdentifierKinds)) :
                                /\ n <= Len(E[i].identifiers)
                                /\ E[i].identifiers[n].value # ""}} ]

\* Number of characters of each token.
TokenLen ==
    ( T1 :> 19 ) @@ ( T2 :> 19 ) @@ ( "INFO" :> 4 ) @@ ( "ERROR" :> 5 ) @@
    ( "warn" :> 4 ) @@ ( "WARNING" :> 7 ) @@ ( "GET" :> 3 ) @@ ( "POST" :> 4 ) @@
    ( "/a" :> 2 ) @@ ( "/b" :> 2 ) @@ ( "200" :> 3 ) @@ ( "500" :> 3 ) @@
    ( "700" :> 3 ) @@ ( "user_id=abc" :> 11 ) @@ ( "username=abc" :> 12 ) @@
    ( "trace_id=abd" :> 12 ) @@ ( "TimeoutError" :> 12 ) @@ ( "\t" :> 1 )

\* len(raw): the tokens and the single spaces between them.
RECURSIVE TextLen(_)
TextLen(line) ==
    IF line = <<>> THEN 0
    ELSE IF Len(line) = 1 THEN TokenLen[line[1]]
    ELSE TokenLen[Head(line)] + 1 + TextLen(Tail(line))

\* raw[:n], as the line and the number of its characters that are kept.
Prefix(line, n) ==
    [ line |-> line, chars |-> IF TextLen(line) < n THEN TextLen(line) ELSE n ]

RawLimit == 200

\* seq[-m:] for m >= 0 (seq[-0:] is the whole list).
LastSlice(seq, m) ==
    IF m = 0 \/ m >= Len(seq) THEN seq
    ELSE SubSeq(seq, Len(seq) - m + 1, Len(seq))

\* The text of prepare_context_for_ai, as the values it is formatted from.
prepare_context_for_ai(s, max_logs) ==
    LET stats == get_statistics(s)
        recent_logs == IF Len(s.logs) > max_logs THEN LastSlice(s.logs, max_logs) ELSE s.logs
    IN  [ total_logs   |-> stats.total_logs,
          errors       |-> stats.errors,
          warnings     |-> stats.warnings,
          api_calls    |-> stats.api_calls,
          unique_users |-> stats.unique_users,
          api_summary  |-> get_api_summary(s),
          patterns     |-> find_common_patterns(s),
          last_count   |-> IF max_logs < Len(s.logs) THEN max_logs ELSE Len(s.logs),
          recent       |-> [n \in 1..Len(recent_logs) |->
                              [ level |-> recent_logs[n].level,
                                raw   |-> Prefix(recent_logs[n].raw, RawLimit) ]] ]

\* Values of max_logs the context compiler is called with.
MaxLogsArgs == {0, 1, 100}

(***************************************************************************)
(* Operations.                                                             *)
(***************************************************************************)
Init ==
    /\ logs = <<>>
    /\ user_sessions = <<>>
    /\ errors = <<>>
    /\ api_calls = <<>>
    /\ content = None
    /\ previous = None
    /\ parses = 0
    /\ submitted = 0
    /\ pc = "idle"
    /\ idx = 0
    /\ parsed_logs = <<>>
    /\ last_op = [name |-> "__init__", arg |-> None]
    /\ result = None

\* parse_logs(content), from call to return.
ParseLogs(doc) ==
    /\ pc = "idle"
    /\ submitted + Len(doc) <= MaxSubmitted
    /\ LET s == StoreAfterParse(CurrentStore, doc)
       IN  /\ logs' = s.logs
           /\ user_sessions' = s.user_sessions
           /\ errors' = s.errors
           /\ api_calls' = s.api_calls
           /\ result' = s.logs
    /\ content' = doc
    /\ previous' = content
    /\ parses' = parses + 1
    /\ submitted' = submitted + Len(doc)
    /\ last_op' = [name |-> "parse_logs", arg |-> None]
    /\ UNCHANGED <<pc, idx, parsed_logs>>

\* parse_logs up to the for statement: lines and parsed_logs are set.
ParseBegin(doc) ==
    /\ pc = "idle"
    /\ submitted + Len(doc) <= MaxSubmitted
    /\ pc' = "loop"
    /\ idx' = 0
    /\ parsed_logs' = <<>>
    /\ content' = doc
    /\ previous' = content
    /\ parses' = parses + 1
    /\ submitted' = submitted + Len(doc)
    /\ UNCHANGED <<logs, user_sessions, errors, api_calls, last_op, result>>

\* One iteration of the for loop of the running parse_logs.
ParseLine ==
    /\ pc = "loop"
    /\ idx < Len(content)
    /\ LET st == ProcessLine([ parsed_logs   |-> parsed_logs,
                               errors        |-> errors,
                               api_calls     |-> api_calls,
                               user_sessions |-> user_sessions ], idx, content[idx + 1])
       IN  /\ parsed_logs' = st.parsed_logs
           /\ errors' = st.errors
           /\ api_calls' = st.api_calls
           /\ user_sessions' = st.user_sessions
    /\ idx' = idx + 1
    /\ UNCHANGED <<logs, content, previous, parses, submitted, pc, last_op, result>>

\* self.logs = parsed_logs; return parsed_logs
ParseReturn ==
    /\ pc = "loop"
    /\ idx >= Len(content)
    /\ logs' = parsed_logs
    /\ result' = parsed_logs
    /\ last_op' = [name |-> "parse_logs", arg |-> None]
    /\ pc' = "idle"
    /\ idx' = 0
    /\ parsed_logs' = <<>>
    /\ UNCHANGED <<user_sessions, errors, api_calls, content, previous, parses, submitted>>

\* The "Clear Log Data" button, shown while log_data is non-empty: the
\* session drops its processor and the next upload makes a new one.
ClearLogData ==
    /\ pc = "idle"
    /\ logs # <<>>
    /\ logs' = <<>>
    /\ user_sessions' = <<>>
    /\ errors' = <<>>
    /\ api_calls' = <<>>
    /\ content' = None
    /\ previous' = None
    /\ parses' = 0
    /\ submitted' = 0
    /\ last_op' = [name |-> "clear", arg |-> None]
    /\ result' = None
    /\ UNCHANGED <<pc, idx, parsed_logs>>

\* SessionsAfterValues looking the argument up with self.user_sessions[...]:
\* the defaultdict creates a missing key.
SessionsAfterGetItem(us, user_identifier) ==
    IF \E j \in 1..Len(us) : us[j].k = user_identifier
    THEN us
    ELSE Append(us, [k |-> user_identifier, v |-> <<>>])

\* self.user_sessions after `for logs in self.user_sessions.values()`:
\* iterating the values of the defaultdict looks no key up.
SessionsAfterValues(us, user_identifier) == us

\* What a query leaves behind: it assigns to no attribute of self.
Returns(name, arg, value) ==
    /\ last_op' = [name |-> name, arg |-> arg]
    /\ result' = value
    /\ UNCHANGED <<logs, errors, api_calls, content, previous, parses, submitted,
                   pc, idx, parsed_logs>>

GetUserJourney(user_identifier) ==
    /\ Returns("get_user_journey", user_identifier,
               get_user_journey(user_sessions, user_identifier))
    /\ user_sessions' = SessionsAfterValues(user_sessions, user_identifier)

FindErrorSequence(user_identifier) ==
    /\ Returns("find_error_sequence", user_identifier,
               find_error_sequence(user_sessions, user_identifier))
    /\ user_sessions' = SessionsAfterValues(user_sessions, user_identifier)

GetStatistics ==
    /\ Returns("get_statistics", None, get_statistics(CurrentStore))
    /\ UNCHANGED user_sessions

GetAllUsers ==
    /\ Returns("get_all_users", None, get_all_users(CurrentStore))
    /\ UNCHANGED user_sessions

GetApiSummary ==
    /\ Returns("get_api_summary", None, get_api_summary(CurrentStore))
    /\ UNCHANGED user_sessions

FindCommonPatterns ==
    /\ Returns("find_common_patterns", None, find_common_patterns(CurrentStore))
    /\ UNCHANGED user_sessions

PrepareContextForAI(max_logs) ==
    /\ Returns("prepare_context_for_ai", max_logs,
               prepare_context_for_ai(CurrentStore, max_logs))
    /\ UNCHANGED user_sessions

Query ==
    \/ \E user_identifier \in Identifiers : GetUserJourney(user_identifier)
    \/ \E user_identifier \in Identifiers : FindErrorSequence(user_identifier)
    \/ GetStatistics
    \/ GetAllUsers
    \/ GetApiSummary
    \/ FindCommonPatterns
    \/ \E max_logs \in MaxLogsArgs : PrepareContextForAI(max_logs)

Next ==
    \/ \E doc \in Docs(MaxSubmitted - submitted) : ParseLogs(doc)
    \/ ClearLogData
    \/ Query

Spec == Init /\ [][Next]_vars

\* parse_logs taken one loop iteration at a time, with queries in between.
NextStep ==
    \/ \E doc \in Docs(MaxSubmitted - submitted) : ParseBegin(doc)
    \/ ParseLine
    \/ ParseReturn
    \/ Query

SpecStep == Init /\ [][NextStep]_vars

(***************************************************************************)
(* Properties.                                                             *)
(***************************************************************************)
QueryNames ==
    {"get_user_journey", "find_error_sequence", "get_statistics", "get_all_users",
     "get_api_summary", "find_common_patterns", "prepare_context_for_ai"}

\* The store of a new LogProcessor that was given only doc (None: nothing).
FreshAfter(doc) ==
    IF doc = None THEN FreshStore ELSE StoreAfterParse(FreshStore, doc)

\* All that a caller can read of a store: the four collections and the
\* aggregate outputs.
Observable(s) ==
    [ store    |-> s,
      stats    |-> get_statistics(s),
      summary  |-> get_api_summary(s),
      patterns |-> find_common_patterns(s),
      journeys |-> [u \in Identifiers |-> get_user_journey(s.user_sessions, u)] ]

\* C1: after any sequence of parse_logs calls, the entry sequence, error
\* list, API-call list, identifier index and the aggregate outputs equal
\* those of a fresh LogProcessor that was given only the last document.
C1_ReparseEqualsFresh ==
    (pc = "idle" /\ parses >= 1) =>
        Observable(CurrentStore) = Observable(FreshAfter(content))

\* Positions of the non-blank lines of doc.
NonBlank(doc) == {i \in 1..Len(doc) : ~IsBlank(doc[i])}

\* The n-th smallest element of the set of numbers S.
Nth(S, n) == CHOOSE x \in S : Cardinality({y \in S : y <= x}) = n

\* C2 as stated: the line_number values returned by parse_logs are exactly
\* 1, 2, ..., n in order, n being the number of non-blank lines.
C2_ContiguousFromOne ==
    last_op.name = "parse_logs" =>
        /\ Len(result) = Cardinality(NonBlank(content))
        /\ \A n \in 1..Len(result) : result[n].line_number = n

\* C2 amended: parse_logs returns one entry per non-blank line, in order,
\* and the line_number of an entry is the 1-based position of its line among
\* all the lines of the document, blank ones included.
C2_LineNumberIsPosition ==
    last_op.name = "parse_logs" =>
        /\ Len(result) = Cardinality(NonBlank(content))
        /\ \A n \in 1..Len(result) :
              /\ result[n].line_number = Nth(NonBlank(content), n)
              /\ result[n].raw = content[Nth(NonBlank(content), n)]
        /\ \A m, n \in 1..Len(result) :
              m < n => result[m].line_number < result[n].line_number

\* A parse returned entries for a document with a blank line before a
\* non-blank one.
C2_Witness ==
    /\ last_op.name = "parse_logs"
    /\ Len(result) >= 2
    /\ \E i \in 1..Len(content) : IsBlank(content[i]) /\ \E k \in NonBlank(content) : i < k

\* C3: every analysis query, whatever its argument, leaves the entry
\* sequence, the error list, the API-call list and the identifier index
\* (keys and buckets) unchanged.
C3_QueriesChangeNothing ==
    [][Query => /\ logs' = logs
                /\ errors' = errors
                /\ api_calls' = api_calls
                /\ user_sessions' = user_sessions]_vars

\* A journey query for an identifier that matches nothing has returned on a
\* processor whose index is not empty.
C3_Witness ==
    /\ last_op.name = "find_error_sequence"
    /\ last_op.arg = "zz"
    /\ result = None
    /\ user_sessions # <<>>
    /\ \A j \in 1..Len(user_sessions) : user_sessions[j].k # "zz"

\* C4: a query that runs between two steps of a parse_logs call on a
\* processor that already holds a snapshot reads collections that all
\* belong to the old document or all belong to the new one.
C4_NoMixedSnapshot ==
    (last_op.name \in QueryNames /\ previous # None) =>
        \/ CurrentStore = FreshAfter(previous)
        \/ CurrentStore = FreshAfter(content)

(***************************************************************************)
(* Properties of find_error_sequence.                                      *)
(***************************************************************************)
\* "Failed" as the claims state it.
FailedEntry(log) ==
    log.has_error \/ (log.status_code # None /\ log.status_code[1] >= 400)

SuccessfulEntry(log) == ~FailedEntry(log)

\* find_error_sequence has returned a result for a non-empty journey.
ErrorSequenceReturned == last_op.name = "find_error_sequence" /\ result # None

\* The journey that call worked on.
QueriedJourney == get_user_journey(user_sessions, last_op.arg)

Largest(S) == CHOOSE x \in S : \A y \in S : y <= x
Smallest(S) == CHOOSE x \in S : \A y \in S : x <= y

\* C5 as stated: last_successful_api is the api field of the last successful
\* entry of the sorted journey, absent when that entry has no api field or
\* when there is no successful entry.
C5_ApiOfLastSuccessfulEntry ==
    ErrorSequenceReturned =>
        LET j == QueriedJourney
            S == {n \in 1..Len(j) : SuccessfulEntry(j[n])}
        IN  result[1].last_successful_api =
                IF S = {} THEN None ELSE j[Largest(S)].api

\* C5 amended: last_successful_api is the api field of the last successful
\* entry of the sorted journey that has an api field, wherever it lies
\* relative to the first failure; it is absent when no successful entry has
\* an api field.
C5_ApiOfLastSuccessfulEntryWithApi ==
    ErrorSequenceReturned =>
        LET j == QueriedJourney
            S == {n \in 1..Len(j) : SuccessfulEntry(j[n]) /\ j[n].api # None}
        IN  result[1].last_successful_api =
                IF S = {} THEN None ELSE j[Largest(S)].api

\* The last successful entry of the journey has no api, an earlier one has,
\* and a failure lies before that earlier one.
C5_Witness ==
    /\ ErrorSequenceReturned
    /\ LET j == QueriedJourney
           S == {n \in 1..Len(j) : SuccessfulEntry(j[n])}
       IN  /\ S # {}
           /\ j[Largest(S)].api = None
           /\ result[1].last_successful_api # None
           /\ \E f \in 1..Len(j), n \in S : f < n /\ FailedEntry(j[f]) /\ j[n].api # None

\* C6: find_error_sequence partitions a non-empty journey: failed_requests
\* are the failed entries and successful_requests the others, each in the
\* journey's order, and total_requests is the sum of their lengths and the
\* length of the journey.
C6_Partition ==
    ErrorSequenceReturned =>
        LET j == QueriedJourney
            r == result[1]
        IN  /\ j # <<>>
            /\ r.failed_requests = SelectSeq(j, FailedEntry)
            /\ r.successful_requests = SelectSeq(j, SuccessfulEntry)
            /\ r.total_requests = Len(r.successful_requests) + Len(r.failed_requests)
            /\ r.total_requests = Len(j)

\* Both lists are non-empty, and an entry failed by its status code alone.
C6_Witness ==
    /\ ErrorSequenceReturned
    /\ result[1].successful_requests # <<>>
    /\ \E n \in 1..Len(result[1].failed_requests) :
          ~result[1].failed_requests[n].has_error

\* C7: first_error is the earliest failed entry of the sorted journey, equal
\* to failed_requests[0], and is absent exactly when failed_requests is empty.
C7_FirstError ==
    ErrorSequenceReturned =>
        LET j == QueriedJourney
            r == result[1]
            F == {n \in 1..Len(j) : FailedEntry(j[n])}
        IN  /\ (r.first_error = None) <=> (r.failed_requests = <<>>)
            /\ r.failed_requests # <<>> => r.first_error = Some(r.failed_requests[1])
            /\ F # {} => r.first_error = Some(j[Smallest(F)])

\* Two different failed entries follow a successful one.
C7_Witness ==
    /\ ErrorSequenceReturned
    /\ Len(result[1].failed_requests) >= 2
    /\ result[1].failed_requests[1] # result[1].failed_requests[Len(result[1].failed_requests)]
    /\ result[1].successful_requests # <<>>
    /\ SuccessfulEntry(QueriedJourney[1])

(***************************************************************************)
(* Properties of get_api_summary, the identifier index and the journey.    *)
(***************************************************************************)
\* "Successful" as C8 states it: status_code present and below 400.
SuccessfulCall(log) == log.status_code # None /\ log.status_code[1] < 400

\* The API-call entries whose "METHOD endpoint" key is key.
CallsOf(key) ==
    LET Is(l) == l.api # None /\ l.api[1].method = key[1] /\ l.api[1].endpoint = key[2]
    IN  SelectSeq(api_calls, Is)

ApiSummaryReturned == last_op.name = "get_api_summary"

\* C8 as stated: per key, total_calls counts the API-call entries of the
\* key, successful those with status_code present and < 400, and failed
\* those with has_error true or status_code >= 400.
C8_FailedCountsEveryFailure ==
    ApiSummaryReturned =>
        \A key \in DOMAIN result :
            /\ result[key].total_calls = Len(CallsOf(key))
            /\ result[key].successful = Len(SelectSeq(CallsOf(key), SuccessfulCall))
            /\ result[key].failed = Len(SelectSeq(CallsOf(key), FailedEntry))

\* C8 amended: failed counts the entries of the key that are not counted as
\* successful and have has_error true or status_code >= 400; an entry with
\* has_error true and status_code 200 is counted as successful, not failed.
C8_FailedExcludesSuccessful ==
    ApiSummaryReturned =>
        /\ DOMAIN result = {<<api_calls[i].api[1].method, api_calls[i].api[1].endpoint>> :
                                i \in 1..Len(api_calls)}
        /\ \A key \in DOMAIN result :
            LET FailedCall(l) == ~SuccessfulCall(l) /\ FailedEntry(l)
            IN  /\ result[key].total_calls = Len(CallsOf(key))
                /\ result[key].successful = Len(SelectSeq(CallsOf(key), SuccessfulCall))
                /\ result[key].failed = Len(SelectSeq(CallsOf(key), FailedCall))

\* The summary covers a call with has_error true and status_code 200 and a
\* call that failed with a status code >= 400.
C8_Witness ==
    /\ ApiSummaryReturned
    /\ \E i \in 1..Len(api_calls) :
          api_calls[i].has_error /\ api_calls[i].status_code = Some(200)
    /\ \E key \in DOMAIN result : result[key].failed >= 1

\* Number of times entry occurs in the bucket of the value v.
Occurrences(v, entry) ==
    LET B == {j \in 1..Len(user_sessions) : user_sessions[j].k = v}
    IN  IF B = {} THEN 0
        ELSE LET bucket == user_sessions[CHOOSE j \in B : TRUE].v
             IN  Cardinality({n \in 1..Len(bucket) : bucket[n] = entry})

\* The identifier values that occur in the vocabulary.
IdentifierValues == {IdentifierToken[t].value : t \in DOMAIN IdentifierToken}

\* Kinds under which entry carries the value v.
KindsCarrying(entry, v) ==
    {n \in 1..Len(entry.identifiers) : entry.identifiers[n].value = v}

OneDocumentParsed == pc = "idle" /\ parses = 1

\* C9 as stated: after parsing one document, an entry occurs in the bucket
\* of a value exactly once if it carries the value under at least one kind,
\* and not at all otherwise.
C9_OncePerValue ==
    OneDocumentParsed =>
        \A i \in 1..Len(logs), v \in IdentifierValues :
            Occurrences(v, logs[i]) = IF KindsCarrying(logs[i], v) # {} THEN 1 ELSE 0

\* C9 amended: after parsing one document, an entry occurs in the bucket of
\* a value once for every identifier kind under which it carries that value
\* (twice when user_id and username are both "abc"), and not at all when it
\* carries the value under no kind; the keys are the values carried.
C9_OncePerKind ==
    OneDocumentParsed =>
        /\ \A i \in 1..Len(logs), v \in IdentifierValues :
              Occurrences(v, logs[i]) = Cardinality(KindsCarrying(logs[i], v))
        /\ \A j \in 1..Len(user_sessions) :
              /\ \E i \in 1..Len(logs) : KindsCarrying(logs[i], user_sessions[j].k) # {}
              /\ \A m \in 1..Len(user_sessions) : m # j => user_sessions[m].k # user_sessions[j].k

\* One document was parsed that has an entry carrying one value under two
\* kinds and another value under one, and an entry without identifiers.
C9_Witness ==
    /\ OneDocumentParsed
    /\ \E i \in 1..Len(logs) :
          /\ Cardinality(KindsCarrying(logs[i], "abc")) = 2
          /\ Cardinality(KindsCarrying(logs[i], "abd")) = 1
    /\ \E i \in 1..Len(logs) : logs[i].identifiers = <<>>

\* The sort key as C10 states it: an absent timestamp is the empty string.
JourneyKey(log) == IF log.timestamp = None THEN "" ELSE log.timestamp[1]

JourneyReturned == last_op.name = "get_user_journey"

\* The entries of the call's argument as collected from the index.
QueriedCollected == CollectJourney(user_sessions, last_op.arg, 1)

\* C10: get_user_journey returns the collected entries in ascending order of
\* timestamp, an absent timestamp before every present one, and entries with
\* equal timestamps in the order in which they were collected.
C10_SortedStable ==
    JourneyReturned =>
        /\ Len(result) = Len(QueriedCollected)
        /\ \A m, n \in 1..Len(result) :
              m < n => StringRank[JourneyKey(result[m])] <= StringRank[JourneyKey(result[n])]
        /\ \A m, n \in 1..Len(result) :
              (result[m].timestamp = None /\ result[n].timestamp # None) => m < n
        /\ \A k \in DOMAIN StringRank :
              LET HasKey(l) == JourneyKey(l) = k
              IN  SelectSeq(result, HasKey) = SelectSeq(QueriedCollected, HasKey)

\* The journey holds two different entries with the same timestamp, and an
\* untimestamped entry that was collected after a timestamped one.
C10_Witness ==
    /\ JourneyReturned
    /\ \E m, n \in 1..Len(result) :
          /\ m < n
          /\ result[m] # result[n]
          /\ result[m].timestamp # None
          /\ result[m].timestamp = result[n].timestamp
    /\ \E m, n \in 1..Len(QueriedCollected) :
          /\ m < n
          /\ QueriedCollected[m].timestamp # None
          /\ QueriedCollected[n].timestamp = None

(***************************************************************************)
(* Properties of the empty journey and of the processor without a document.*)
(***************************************************************************)
\* Some identifier value of entry contains the string u, case-insensitively.
ContainsIdentifier(entry, u) ==
    \E n \in 1..Len(entry.identifiers) :
        IsSubstring(Lower(Chars[u]), Lower(Chars[entry.identifiers[n].value]))

\* Some entry of some bucket of the index has such a value.
IndexedMatch(u) ==
    \E j \in 1..Len(user_sessions) :
        \E n \in 1..Len(user_sessions[j].v) : ContainsIdentifier(user_sessions[j].v[n], u)

\* C11: find_error_sequence(identifier) returns None exactly when
\* get_user_journey(identifier) is empty, that is when no indexed entry has
\* an identifier value containing identifier case-insensitively; otherwise
\* it returns a result.  This holds for every parsed document, the empty one
\* included.
C11_NoneIffNoMatch ==
    last_op.name = "find_error_sequence" =>
        /\ (result = None) <=> (get_user_journey(user_sessions, last_op.arg) = <<>>)
        /\ (result = None) <=> ~IndexedMatch(last_op.arg)
        /\ result # None => result[1].total_requests >= 1

\* find_error_sequence returned None for an identifier that occurs in no
\* value of an index that is not empty, after an upper-case argument has
\* matched lower-case values.
C11_Witness ==
    /\ last_op.name = "find_error_sequence"
    /\ last_op.arg = "bd"
    /\ result = None
    /\ user_sessions # <<>>
    /\ IndexedMatch("AB")

\* What the query name with argument arg returns on the store s.
QueryOutcome(s, name, arg) ==
    CASE name = "get_statistics"       -> get_statistics(s)
      [] name = "get_user_journey"     -> get_user_journey(s.user_sessions, arg)
      [] name = "find_error_sequence"  -> find_error_sequence(s.user_sessions, arg)
      [] name = "get_api_summary"      -> get_api_summary(s)
      [] name = "find_common_patterns" -> find_common_patterns(s)

\* A document in which nothing matches: one blank line.
AllBlankDocument == <<LineEmpty>>

\* C12: a query (get_statistics, get_user_journey, find_error_sequence,
\* get_api_summary, find_common_patterns) issued before any document has
\* been submitted produces an outcome that differs from the outcome of the
\* same query on a processor that was given an all-blank document.
C12_DistinctBeforeSubmission ==
    ( /\ parses = 0
      /\ last_op.name \in {"get_statistics", "get_user_journey", "find_error_sequence",
                           "get_api_summary", "find_common_patterns"} )
    => result # QueryOutcome(FreshAfter(AllBlankDocument), last_op.name, last_op.arg)

(***************************************************************************)
(* Properties of the context compiler and of the statistics.               *)
(***************************************************************************)
\* The last k entries of seq, in their order (none for k = 0).
Tail_k(seq, k) ==
    [n \in 1..k |-> seq[Len(seq) - k + n]]

\* C13: for every max_logs >= 0 and every corpus of n entries,
\* prepare_context_for_ai(max_logs) renders exactly the last min(max_logs, n)
\* entries of the entry sequence, in original order, each as "[level] raw"
\* with raw cut to its first 200 characters; the whole corpus is rendered
\* only when n <= max_logs.
C13_RendersLastMin ==
    last_op.name = "prepare_context_for_ai" =>
        LET n      == Len(logs)
            k      == IF last_op.arg < n THEN last_op.arg ELSE n
            window == Tail_k(logs, k)
        IN  /\ Len(result.recent) = k
            /\ \A i \in 1..k :
                  /\ result.recent[i].level = window[i].level
                  /\ result.recent[i].raw.line = window[i].raw
                  /\ result.recent[i].raw.chars =
                        (IF TextLen(window[i].raw) < RawLimit THEN TextLen(window[i].raw)
                         ELSE RawLimit)
            /\ (Len(result.recent) = n) => (n <= last_op.arg)

\* The positions of the entries of the given level.
EntriesOfLevel(level) == {i \in 1..Len(logs) : logs[i].level = level}

\* C14: get_statistics reports as warnings the number of entries whose level
\* is exactly WARN; entries whose level is WARNING are not counted, so a
\* document with one WARN line and one WARNING line gives warnings = 1.
C14_WarningsCountWarnOnly ==
    last_op.name = "get_statistics" =>
        /\ result.warnings = Cardinality(EntriesOfLevel("WARN"))
        /\ ( /\ Cardinality(EntriesOfLevel("WARN")) = 1
             /\ Cardinality(EntriesOfLevel("WARNING")) = 1 ) => result.warnings = 1

\* get_statistics returned for a document of one WARN line and one WARNING
\* line.
C14_Witness ==
    /\ last_op.name = "get_statistics"
    /\ parses = 1
    /\ Len(logs) = 2
    /\ Cardinality(EntriesOfLevel("WARN")) = 1
    /\ Cardinality(EntriesOfLevel("WARNING")) = 1
    /\ result.warnings = 1

(***************************************************************************)
(* Multiplicity of the entries of a journey.                               *)
(***************************************************************************)
\* The positions of the entries that have a value containing u.
MatchingEntries(u) == {i \in 1..Len(logs) : ContainsIdentifier(logs[i], u)}

\* One element for every identifier kind of every matching entry.
MatchingKinds(u) ==
    UNION {{<<i, n>> : n \in 1..Len(logs[i].identifiers)} : i \in MatchingEntries(u)}

\* How often entry occurs in the sequence journey.
TimesIn(journey, entry) == Cardinality({m \in 1..Len(journey) : journey[m] = entry})

\* C17: after parsing one document on a fresh LogProcessor, an entry with at
\* least one identifier value containing the queried identifier
\* (case-insensitively) occurs in the result of get_user_journey once for
\* each identifier kind the entry carries, matching or not, and an entry
\* with no matching value does not occur; the journey length and the
\* total_requests of find_error_sequence equal the sum of the identifier-kind
\* counts over the matching entries.
C17_OncePerKindCarried ==
    OneDocumentParsed =>
        /\ JourneyReturned =>
              /\ \A i \in 1..Len(logs) :
                    TimesIn(result, logs[i]) =
                        IF i \in MatchingEntries(last_op.arg)
                        THEN Len(logs[i].identifiers) ELSE 0
              /\ Len(result) = Cardinality(MatchingKinds(last_op.arg))
        /\ last_op.name = "find_error_sequence" =>
              IF result = None THEN MatchingKinds(last_op.arg) = {}
              ELSE result[1].total_requests = Cardinality(MatchingKinds(last_op.arg))

\* The journey of "bd" returned an entry three times that carries three
\* kinds of which one matches, next to an entry that does not match.
C17_Witness ==
    /\ OneDocumentParsed
    /\ JourneyReturned
    /\ last_op.arg = "bd"
    /\ \E i \in 1..Len(logs) :
          /\ Len(logs[i].identifiers) = 3
          /\ Cardinality(KindsCarrying(logs[i], "abd")) = 1
          /\ TimesIn(result, logs[i]) = 3
    /\ \E i \in 1..Len(logs) : logs[i].identifiers # <<>> /\ TimesIn(result, logs[i]) = 0
    /\ Len(result) > Cardinality(MatchingEntries("bd"))

(***************************************************************************)
(* The agent's selection of log entries (src/perplexity_agent.py).  A      *)
(* query is the sequence of its words; its text is the words joined by one *)
(* space.                                                                  *)
(***************************************************************************)
MaxRelevantLines == 101    \* lines of the longest document given to _get_relevant_logs

\* The characters of the text of a query.
RECURSIVE QueryText(_)
QueryText(query) ==
    IF query = <<>> THEN <<>>
    ELSE IF Len(query) = 1 THEN Chars[query[1]]
    ELSE Chars[Head(query)] \o <<" ">> \o QueryText(Tail(query))

\* keyword in query_lower
Mentions(query_lower, keyword) == IsSubstring(Chars[keyword], query_lower)

UserKeywords == {"user", "username", "journey", "track"}

\* The caps of the analysis depths, and the cap of any other value.
DepthCaps == ( "Quick" :> 20 ) @@ ( "Standard" :> 50 ) @@ ( "Deep" :> 100 )
DefaultCap == 50
MaxLogsOf(depth) == IF depth \in DOMAIN DepthCaps THEN DepthCaps[depth] ELSE DefaultCap

\* relevance_score of one entry.
RelevanceScore(query_lower, log) ==
      (IF Mentions(query_lower, "error") /\ log.has_error THEN 10 ELSE 0)
    + (IF (\E keyword \in UserKeywords : Mentions(query_lower, keyword))
          /\ log.identifiers # <<>> THEN 5 ELSE 0)
    + (IF Mentions(query_lower, "api") /\ log.api # None THEN 5 ELSE 0)
    + (IF log.has_error THEN 3 ELSE 0)

\* seq reversed.
Reversed(seq) == [n \in 1..Len(seq) |-> seq[Len(seq) + 1 - n]]

\* SortByScoreDescending with the pairs of equal score in reverse order: an
\* ascending sort followed by list.reverse().
RECURSIVE SortAscendingReversed(_)
SortAscendingReversed(pairs) ==
    IF pairs = <<>> THEN <<>>
    ELSE LET top == Largest({pairs[n].score : n \in 1..Len(pairs)})
             IsTop(p) == p.score = top
             Below(p) == p.score # top
         IN  Reversed(SelectSeq(pairs, IsTop)) \o SortAscendingReversed(SelectSeq(pairs, Below))

\* relevant_logs.sort(key=lambda x: x[0], reverse=True): descending score,
\* pairs of equal score in their original order.
RECURSIVE SortByScoreDescending(_)
SortByScoreDescending(pairs) ==
    IF pairs = <<>> THEN <<>>
    ELSE LET top == Largest({pairs[n].score : n \in 1..Len(pairs)})
             IsTop(p) == p.score = top
             Below(p) == p.score # top
         IN  SelectSeq(pairs, IsTop) \o SortByScoreDescending(SelectSeq(pairs, Below))

\* seq[:m] for m >= 0.
FirstSlice(seq, m) == IF m >= Len(seq) THEN seq ELSE SubSeq(seq, 1, m)

\* The parts one selected entry is formatted from.
RelevantLine(log) ==
    [ line_number |-> log.line_number,
      level       |-> log.level,
      timestamp   |-> log.timestamp,
      api         |-> log.api,
      status_code |-> log.status_code,
      raw         |-> log.raw ]

\* The text of _get_relevant_logs, as the selected entries in their order.
_get_relevant_logs(query, log_data, depth) ==
    LET max_logs      == MaxLogsOf(depth)
        query_lower   == Lower(QueryText(query))
        relevant_logs == [n \in 1..Len(log_data) |->
                            [ score |-> RelevanceScore(query_lower, log_data[n]),
                              log   |-> log_data[n] ]]
        selected_logs == FirstSlice(SortByScoreDescending(relevant_logs), max_logs)
    IN  [n \in 1..Len(selected_logs) |-> RelevantLine(selected_logs[n].log)]

\* The queries and depths the selection is made for.
Queries ==
    { <<"hello">>,
      <<"show", "errors">>,
      <<"api", "errors", "for", "AB">>,
      <<"track", "user", "zz">>,
      <<"journey", "of", "ABD">>,
      <<"username:", "bd">> }

Depths == {"Quick", "Standard", "Deep", "Custom"}

\* Documents of n lines that repeat a few lines.
Patterns ==
    { <<LineOk>>,
      <<LineOk, LineErr200>>,
      <<LineNoApi, LineExc, LineKinds>>,
      <<LineEmpty, LineExc, LineOk, LineOk>> }

Repeated(pattern, n) == [i \in 1..n |-> pattern[((i - 1) % Len(pattern)) + 1]]

\* The lengths around the caps, and some short ones.
RelevantLengths ==
    {n \in 1..MaxRelevantLines :
        \/ n <= 2
        \/ n = MaxRelevantLines
        \/ \E depth \in DOMAIN DepthCaps : n \in (DepthCaps[depth] - 1)..(DepthCaps[depth] + 1)}

RelevantDocs == {Repeated(pattern, n) : pattern \in Patterns, n \in RelevantLengths}

\* The session after the upload of one document (src/main.py, 137-159).
InitRelevant ==
    \E doc \in RelevantDocs :
        LET s == StoreAfterParse(FreshStore, doc)
        IN  /\ logs = s.logs
            /\ user_sessions = s.user_sessions
            /\ errors = s.errors
            /\ api_calls = s.api_calls
            /\ content = doc
            /\ previous = None
            /\ parses = 1
            /\ submitted = Len(doc)
            /\ pc = "idle"
            /\ idx = 0
            /\ parsed_logs = <<>>
            /\ last_op = [name |-> "parse_logs", arg |-> None]
            /\ result = s.logs

GetRelevantLogs(query, depth) ==
    /\ pc = "idle"
    /\ Returns("_get_relevant_logs", [query |-> query, depth |-> depth],
               _get_relevant_logs(query, logs, depth))
    /\ UNCHANGED user_sessions

NextRelevant == \E query \in Queries, depth \in Depths : GetRelevantLogs(query, depth)

SpecRelevant == InitRelevant /\ [][NextRelevant]_vars

(***************************************************************************)
(* Properties of the selection.                                            *)
(***************************************************************************)
RelevantReturned == last_op.name = "_get_relevant_logs"

\* The cap the claim states for a depth.
StatedCap(depth) ==
    CASE depth = "Quick" -> 20
      [] depth = "Standard" -> 50
      [] depth = "Deep" -> 100
      [] OTHER -> 50

\* The score the claim states, for the entries of logs in their order.
StatedScores(query) ==
    LET text     == Lower(QueryText(query))
        mError   == IsSubstring(<<"e", "r", "r", "o", "r">>, text)
        mApi     == IsSubstring(<<"a", "p", "i">>, text)
        mUser    == \/ IsSubstring(<<"u", "s", "e", "r">>, text)
                    \/ IsSubstring(<<"j", "o", "u", "r", "n", "e", "y">>, text)
                    \/ IsSubstring(<<"t", "r", "a", "c", "k">>, text)
    IN  [i \in 1..Len(logs) |->
            (IF mError /\ logs[i].has_error THEN 10 ELSE 0)
          + (IF mUser /\ logs[i].identifiers # <<>> THEN 5 ELSE 0)
          + (IF mApi /\ logs[i].api # None THEN 5 ELSE 0)
          + (IF logs[i].has_error THEN 3 ELSE 0)]

\* The positions in logs of the selected entries, in the order of selection.
SelectedPositions ==
    [n \in 1..Len(result) |->
        CHOOSE i \in 1..Len(logs) : RelevantLine(logs[i]) = result[n]]

\* Entry i comes before entry j in the order "descending score, then
\* original order".
Precedes(score, i, j) == score[i] > score[j] \/ (score[i] = score[j] /\ i < j)

\* C15: _get_relevant_logs selects at most cap entries, cap being 20 for
\* Quick, 50 for Standard, 100 for Deep and 50 for any other depth; the
\* selected entries are the first cap entries of the log sequence ordered by
\* descending relevance score, entries of equal score in their original
\* relative order.
C15_TopByScoreStable ==
    RelevantReturned =>
        LET cap   == StatedCap(last_op.arg.depth)
            score == StatedScores(last_op.arg.query)
            pos   == SelectedPositions
            k     == Len(result)
        IN  /\ k = (IF cap < Len(logs) THEN cap ELSE Len(logs))
            /\ \A n \in 1..k : \E i \in 1..Len(logs) : RelevantLine(logs[i]) = result[n]
            /\ \A n \in 1..(k - 1) : Precedes(score, pos[n], pos[n + 1])
            /\ \A i \in 1..Len(logs) :
                  (\A n \in 1..k : pos[n] # i) => (k > 0 /\ Precedes(score, pos[k], i))

\* The cap cut a group of entries of equal score: entries of two scores
\* were selected out of their original order, and an entry was left out
\* that has the score of the last selected one.
C15_Witness ==
    /\ RelevantReturned
    /\ Len(result) < Len(logs)
    /\ LET score == StatedScores(last_op.arg.query)
           pos   == SelectedPositions
           k     == Len(result)
       IN  /\ \E n \in 1..(k - 1) : pos[n] > pos[n + 1]
           /\ score[pos[1]] > score[pos[k]]
           /\ \E i \in 1..Len(logs) : i > pos[k] /\ score[i] = score[pos[k]]
           /\ \E n \in 1..(k - 1) : score[pos[n]] = score[pos[n + 1]]

(***************************************************************************)
(* The agent's context for one chat message (src/perplexity_agent.py,      *)
(* called by the chat handler of src/main.py).                             *)
(***************************************************************************)
\* Characters matched by \w and by \s in the texts of the queries.
WordChars ==
    {"a", "b", "c", "d", "e", "f", "g", "h", "i", "j", "k", "l", "m", "n", "o", "p", "q",
     "r", "s", "t", "u", "v", "w", "x", "y", "z", "0", "1", "2", "3", "4", "5", "6", "7",
     "8", "9", "_"}
SpaceChars == {" ", "\t"}

\* The three patterns of _extract_user_from_query: a literal, one or more
\* characters of a class, and the group (\w+).
UserPatterns ==
    << [ literal |-> "user",     separators |-> SpaceChars ],
       [ literal |-> "username", separators |-> SpaceChars \cup {":"} ],
       [ literal |-> "for",      separators |-> SpaceChars ] >>

\* The end of the longest run of characters of class that starts at from:
\* the index of the first character after it.
RunEnd(text, from, class) ==
    Smallest({e \in from..(Len(text) + 1) : e = Len(text) + 1 \/ text[e] \notin class})

\* The pattern matches with its literal at position p.
MatchesAt(text, pattern, p) ==
    LET lit   == Chars[pattern.literal]
        after == p + Len(lit)
        group == RunEnd(text, after, pattern.separators)
    IN  /\ after - 1 <= Len(text)
        /\ SubSeq(text, p, after - 1) = lit
        /\ group > after
        /\ group <= Len(text)
        /\ text[group] \in WordChars

\* re.search(pattern, text): group 1 of the leftmost match, or None.
SearchGroup(text, pattern) ==
    LET starts == {p \in 1..Len(text) : MatchesAt(text, pattern, p)}
    IN  IF starts = {} THEN None
        ELSE LET p     == Smallest(starts)
                 group == RunEnd(text, p + Len(Chars[pattern.literal]), pattern.separators)
             IN  Some(SubSeq(text, group, RunEnd(text, group, WordChars) - 1))

\* The first user of the list whose position is in Hits, or None.
FirstUser(users, Hits) ==
    LET at == {j \in 1..Len(users) : j \in Hits}
    IN  IF at = {} THEN None ELSE Some(users[Smallest(at)])

\* The loop over patterns, from pattern n on.
RECURSIVE ExtractByPattern(_, _, _)
ExtractByPattern(query_lower, users, n) ==
    IF n > Len(UserPatterns) THEN None
    ELSE LET match == SearchGroup(query_lower, UserPatterns[n])
             found == IF match = None THEN None
                      ELSE FirstUser(users,
                             {j \in 1..Len(users) :
                                 IsSubstring(match[1], Lower(Chars[users[j]]))})
         IN  IF found # None THEN found
             ELSE ExtractByPattern(query_lower, users, n + 1)

_extract_user_from_query(query, s) ==
    LET query_lower == Lower(QueryText(query))
        users       == get_all_users(s)
        mentioned   == FirstUser(users,
                         {j \in 1..Len(users) :
                             IsSubstring(Lower(Chars[users[j]]), query_lower)})
    IN  IF mentioned # None THEN mentioned
        ELSE ExtractByPattern(query_lower, users, 1)

JourneyRawLimit == 150

\* The "Journey Summary" and "Detailed Journey" of _prepare_analysis_context,
\* as the values they are formatted from.
JourneySection(user_journey, error_sequence) ==
    [ total_requests      |-> error_sequence.total_requests,
      successful          |-> Len(error_sequence.successful_requests),
      failed              |-> Len(error_sequence.failed_requests),
      first_error_at      |-> IF error_sequence.first_error # None
                              THEN Some(error_sequence.first_error[1].line_number)
                              ELSE None,
      last_successful_api |-> error_sequence.last_successful_api,
      detailed            |-> [n \in 1..Len(user_journey) |->
                                 [ line_number |-> user_journey[n].line_number,
                                   level       |-> user_journey[n].level,
                                   raw         |-> Prefix(user_journey[n].raw,
                                                          JourneyRawLimit) ]] ]

\* _prepare_analysis_context: the context, as the values it is formatted
\* from, or the TypeError of subscripting an error sequence that is None.
_prepare_analysis_context(user_query, log_data, s, analysis_depth, auto_detect_user) ==
    LET stats           == get_statistics(s)
        user_identifier == IF auto_detect_user
                           THEN _extract_user_from_query(user_query, s)
                           ELSE None
        user_journey    == get_user_journey(s.user_sessions, user_identifier[1])
        error_sequence  == find_error_sequence(s.user_sessions, user_identifier[1])
        api_summary     == get_api_summary(s)
        patterns        == find_common_patterns(s)
    IN  IF user_identifier # None /\ error_sequence = None
        THEN [ raised |-> Some("TypeError"), user_identifier |-> user_identifier ]
        ELSE [ raised          |-> None,
               user_identifier |-> user_identifier,
               stats           |-> stats,
               journey         |-> IF user_identifier # None
                                   THEN Some(JourneySection(user_journey, error_sequence[1]))
                                   ELSE None,
               api_summary     |-> [key \in DOMAIN api_summary |->
                                      [ total_calls |-> api_summary[key].total_calls,
                                        successful  |-> api_summary[key].successful,
                                        failed      |-> api_summary[key].failed ]],
               exceptions      |-> patterns.most_common_exceptions,
               failed_apis     |-> patterns.most_failed_apis,
               affected_users  |-> Cardinality(patterns.affected_users),
               relevant        |-> _get_relevant_logs(user_query, log_data, analysis_depth) ]

\* Chat messages with the depth of the slider and the value of the checkbox
\* they are sent under (src/main.py, 104-110).
ChatInputs ==
    { [ query |-> <<"journey", "of", "ABD">>,       depth |-> "Standard", auto |-> TRUE ],
      [ query |-> <<"api", "errors", "for", "AB">>, depth |-> "Quick",    auto |-> TRUE ],
      [ query |-> <<"username:", "bd">>,            depth |-> "Deep",     auto |-> TRUE ],
      [ query |-> <<"track", "user", "zz">>,        depth |-> "Standard", auto |-> TRUE ],
      [ query |-> <<"hello">>,                      depth |-> "Quick",    auto |-> TRUE ],
      [ query |-> <<"journey", "of", "ABD">>,       depth |-> "Deep",     auto |-> FALSE ],
      [ query |-> <<"show", "errors">>,             depth |-> "Standard", auto |-> FALSE ] }

\* One chat message while a log file is loaded: agent.analyze_logs up to the
\* context it sends.
Chat(user_query, analysis_depth, auto_detect_user) ==
    /\ pc = "idle"
    /\ logs # <<>>
    /\ Returns("_prepare_analysis_context",
               [ query |-> user_query, depth |-> analysis_depth, auto |-> auto_detect_user ],
               _prepare_analysis_context(user_query, logs, CurrentStore, analysis_depth,
                                         auto_detect_user))
    /\ UNCHANGED user_sessions

NextChat ==
    \/ \E doc \in Docs(MaxSubmitted - submitted) : ParseLogs(doc)
    \/ ClearLogData
    \/ \E input \in ChatInputs : Chat(input.query, input.depth, input.auto)

SpecChat == Init /\ [][NextChat]_vars

(***************************************************************************)
(* Properties of the chat context.                                         *)
(***************************************************************************)
ChatReturned == last_op.name = "_prepare_analysis_context"

\* The values that the entries of logs carry.
CarriedValues ==
    {logs[i].identifiers[n].value :
        <<i, n>> \in {<<i, n>> \in (1..Len(logs)) \X (1..Len(IdentifierKinds)) :
                        n <= Len(logs[i].identifiers)}}

\* C16: whenever _extract_user_from_query returns an identifier for a
\* LogProcessor, after any sequence of parse_logs calls, find_error_sequence
\* on that identifier returns a result with total_requests >= 1, so that
\* _prepare_analysis_context never subscripts an error sequence that is None.
C16_ExtractedUserHasJourney ==
    /\ \A query \in Queries :
          LET user == _extract_user_from_query(query, CurrentStore)
          IN  user # None =>
                LET error_sequence == find_error_sequence(user_sessions, user[1])
                IN  /\ error_sequence # None
                    /\ error_sequence[1].total_requests >= 1
    /\ ChatReturned =>
          /\ result.raised = None
          /\ result.user_identifier # None =>
                /\ result.journey # None
                /\ result.journey[1].total_requests >= 1
                /\ Len(result.journey[1].detailed) = result.journey[1].total_requests

\* After a second document, a chat message named, through the pattern
\* "username: ...", a user that only the first document carried, and the
\* context holds the journey summary of that user.
C16_Witness ==
    /\ ChatReturned
    /\ parses = 2
    /\ last_op.arg.query = <<"username:", "bd">>
    /\ result.raised = None
    /\ result.user_identifier = Some("abd")
    /\ "abd" \notin CarriedValues
    /\ CarriedValues # {}
    /\ result.journey[1].total_requests >= 1

====
